---- MODULE Spec2Model ----
(***************************************************************************)
(* termuwu: the rendering engine of cmd/colorutil.go.                      *)
(*                                                                         *)
(*   - the quantizer RGBToANSI256 with its helpers, a pure function;       *)
(*   - ImageRenderer.RenderImage: the scaler, then one of the three        *)
(*     renderers (full blocks, half blocks, Braille), with sampleArea and  *)
(*     applySubtleDither.                                                  *)
(*                                                                         *)
(* float64 arithmetic is modelled bit-exactly where the code rounds (the   *)
(* luminance sum, the ramp scaling): a float64 is a binary fixed-point     *)
(* number kept in three 22-bit limbs, rounded to 53 significant bits,      *)
(* ties to even.  The Go compiler fuses x*y + z into one rounding on some  *)
(* targets (arm64, ppc64, s390x, riscv64) and not on others (amd64): the   *)
(* variable fma is the build's choice.                                     *)
(***************************************************************************)
EXTENDS Integers, Sequences, FiniteSets, TLC

VARIABLES
    pc,            \* position: "quantize"/"quantized", "RenderImage"/"render"/"done"
    fma,           \* the build fuses multiply-add (TRUE) or rounds each product (FALSE)
    col,           \* quantizer: the input colour <<r, g, b>>, 8-bit channels
    ansi,          \* quantizer: the index RGBToANSI256 returned (0 before the call)
    img,           \* renderer: the source image [minX, minY, w, h, pat]
    Mode,          \* renderer: ImageRenderer.Mode
    MaxWidth,      \* renderer: ImageRenderer.MaxWidth
    MaxHeight,     \* renderer: ImageRenderer.MaxHeight
    UseDither,     \* renderer: ImageRenderer.UseDither
    outputWidth,   \* renderer: RenderImage's outputWidth
    outputHeight,  \* renderer: RenderImage's outputHeight
    output,        \* renderer: the text built so far, a sequence of tokens
    reads,         \* renderer: the coordinates handed to img.At
    atX,           \* ditherer: the argument x of applySubtleDither
    atY,           \* ditherer: the argument y of applySubtleDither
    dithOut,       \* ditherer: the colour applySubtleDither returned
    useFullBlocks, \* show: the flag --full
    useBraille,    \* show: the flag --braille
    noColor,       \* show: the flag --no-dither
    renderWidth,   \* show: the flag --width
    renderHeight,  \* show: the flag --height
    isURL,         \* show: the argument starts with http:// or https://
    failure,       \* show: what goes wrong while the image is obtained
    termSize,      \* show: <<width, height>> of the terminal, as term.GetSize has it
    decoded,       \* show: the image image.Decode returns when nothing fails
    overridden,    \* show: the fields of the renderer set from the flags
    stdout,        \* show: what was printed, in order
    previous       \* caller: the text of an earlier RenderImage call, <<>> if none

ditherVars == <<atX, atY, dithOut>>

showVars == <<useFullBlocks, useBraille, noColor, renderWidth, renderHeight,
              isURL, failure, termSize, decoded, overridden, stdout>>

vars == <<pc, fma, col, ansi, img, Mode, MaxWidth, MaxHeight, UseDither,
          outputWidth, outputHeight, output, reads, ditherVars, showVars,
          previous>>

(***************************************************************************)
(* float64.  A value 0 <= x < 2^8 is the integer X = x * 2^58 held as      *)
(* <<a, b, c>> with X = a*2^44 + b*2^22 + c.  A float64 in [2^-6, 2^8) has *)
(* a unit in the last place of at least 2^-58, so it is held exactly; the  *)
(* values the program computes within the sizes of this model are 0 or in  *)
(* that range.  Every intermediate result fits TLC's 32-bit integers.      *)
(***************************************************************************)
Limb == 2^22

F64Norm(x) ==
    <<x[1] + ((x[2] + (x[3] \div Limb)) \div Limb),
      (x[2] + (x[3] \div Limb)) % Limb,
      x[3] % Limb>>

\* float64(n) of an integer 0 <= n < 2^8.
F64FromInt(n) == <<n * 2^14, 0, 0>>

\* The exact product of a float64 and a small integer (not yet rounded).
F64MulInt(x, v) == F64Norm(<<x[1] * v, x[2] * v, x[3] * v>>)

\* The exact sum of two values (not yet rounded).
F64Add(x, y) == F64Norm(<<x[1] + y[1], x[2] + y[2], x[3] + y[3]>>)

\* The unit in the last place of a value whose high limb is a >= 2^8: 53
\* significant bits are kept.
Ulp(a) == 2^((CHOOSE k \in 8..22 : 2^k <= a /\ a < 2^(k + 1)) - 8)

\* The value <<a, b, c>> + r/d (0 <= r < d), rounded to a multiple of ulp:
\* to nearest, ties to even.
RoundTo(a, b, c, ulp, r, d) ==
    F64Norm(<<a, b,
              (c - (c % ulp))
                + (IF \/ 2 * ((c % ulp) * d + r) > ulp * d
                      \/ /\ 2 * ((c % ulp) * d + r) = ulp * d
                         /\ (c \div ulp) % 2 = 1
                   THEN ulp ELSE 0)>>)

\* Round an exact result to the nearest float64.
F64Round(x) ==
    IF x[1] < 2^8 THEN x ELSE RoundTo(x[1], x[2], x[3], Ulp(x[1]), 0, 1)

\* x / float64(d), rounded to the nearest float64 (1 <= d < 2^8): a long
\* division, limb by limb; the last remainder decides the rounding.
DivLow(q1, q2, n3, d) ==
    IF q1 < 2^8 THEN <<q1, q2, n3 \div d>>
    ELSE RoundTo(q1, q2, n3 \div d, Ulp(q1), n3 % d, d)

DivMid(q1, n2, c, d) == DivLow(q1, n2 \div d, (n2 % d) * Limb + c, d)

F64DivInt(x, d) == DivMid(x[1] \div d, (x[1] % d) * Limb + x[2], x[3], d)

\* int(x), uint8(x) of a value in range: truncation.
F64Trunc(x) == x[1] \div 2^14

F64Less(x, y) ==
    \/ x[1] < y[1]
    \/ x[1] = y[1] /\ x[2] < y[2]
    \/ x[1] = y[1] /\ x[2] = y[2] /\ x[3] < y[3]

\* x*v + z as the build computes it: one rounding when fused, two otherwise.
F64MulAdd(x, v, z) ==
    IF fma THEN F64Round(F64Add(F64MulInt(x, v), z))
    ELSE F64Round(F64Add(F64Round(F64MulInt(x, v)), z))

\* The float64 constants of the code, as limbs.
K299 == <<4898, 3422552, 268432>>          \* 0.299
K587 == <<9617, 1711276, 134208>>          \* 0.587
K114 == <<1867, 3254779, 3791652>>         \* 0.114
K23by240 == <<1570, 559240, 2236964>>      \* 23.0/240.0
K240by23 == <<170963, 2005971, 2006016>>   \* 240.0/23.0
AspectRatio == <<8192, 0, 0>>              \* 0.5

(***************************************************************************)
(* The quantizer.                                                          *)
(***************************************************************************)
clamp8(val) == IF val > 255 THEN 255 ELSE val

\* The thresholds taken as inclusive upper ends of the buckets.
quantizeToSixInclusive(val) ==
    IF val <= 48 THEN 0
    ELSE IF val <= 95 THEN 1
    ELSE IF val <= 142 THEN 2
    ELSE IF val <= 189 THEN 3
    ELSE IF val <= 236 THEN 4
    ELSE 5

quantizeToSix(val) ==
    IF val < 48 THEN 0
    ELSE IF val < 95 THEN 1
    ELSE IF val < 142 THEN 2
    ELSE IF val < 189 THEN 3
    ELSE IF val < 236 THEN 4
    ELSE 5

maxUint8(a, b, c) == IF a >= b /\ a >= c THEN a ELSE IF b >= c THEN b ELSE c

minUint8(a, b, c) == IF a <= b /\ a <= c THEN a ELSE IF b <= c THEN b ELSE c

isGrayscale(r, g, b) == maxUint8(r, g, b) - minUint8(r, g, b) <= 10

isNearGrayscale(r, g, b) == maxUint8(r, g, b) - minUint8(r, g, b) <= 30

\* 0.299*float64(r) + 0.587*float64(g) + 0.114*float64(b), a float64.
luminance(r, g, b) ==
    F64MulAdd(K114, b, F64MulAdd(K587, g, F64Round(F64MulInt(K299, r))))

\* The ramp index of the gray level gray = uint8(luminance).
rampIndex(gray) ==
    IF gray < 10 THEN 232
    ELSE IF gray > 245 THEN 255
    ELSE 232 + F64Trunc(F64Round(F64MulInt(K23by240, gray - 8)))

mapToGrayscale(r, g, b) == rampIndex(F64Trunc(luminance(r, g, b)))

valMap == <<0, 47, 95, 142, 189, 236>>

\* uint8(grayVal) after the clamps to [0, 255].
clampGray(grayVal) ==
    IF F64Less(F64FromInt(255), grayVal) THEN 255 ELSE F64Trunc(grayVal)

gray3(gray) == <<gray, gray, gray>>

ansiToRGB(index) ==
    IF index >= 232 /\ index <= 255
    THEN gray3(clampGray(F64MulAdd(K240by23, index - 232, F64FromInt(8))))
    ELSE IF index >= 16 /\ index <= 231
    THEN <<valMap[(((index - 16) \div 36) % 6) + 1],
           valMap[(((index - 16) \div 6) % 6) + 1],
           valMap[((index - 16) % 6) + 1]>>
    ELSE IF index = 0 \/ index = 16 THEN <<0, 0, 0>>
    ELSE IF index = 7 \/ index = 231 THEN <<255, 255, 255>>
    ELSE <<128, 128, 128>>

\* 2*dr*dr + 4*dg*dg + 3*db*db; every operand is an integer below 2^53, so
\* the float64 arithmetic is exact.
weighted(r1, g1, b1, c) ==
    2 * (r1 - c[1]) * (r1 - c[1]) + 4 * (g1 - c[2]) * (g1 - c[2])
        + 3 * (b1 - c[3]) * (b1 - c[3])

colorDistance(r1, g1, b1, colorIndex) == weighted(r1, g1, b1, ansiToRGB(colorIndex))

\* A cube index with the red and the blue axis exchanged.
cubeIndexSwapped(r8, g8, b8) ==
    16 + 36 * quantizeToSix(b8) + 6 * quantizeToSix(g8) + quantizeToSix(r8)

\* A cube index without the offset of the 16 reserved colours.
cubeIndexNoOffset(r8, g8, b8) ==
    36 * quantizeToSix(r8) + 6 * quantizeToSix(g8) + quantizeToSix(b8)

cubeIndex(r8, g8, b8) ==
    16 + 36 * quantizeToSix(r8) + 6 * quantizeToSix(g8) + quantizeToSix(b8)

\* No boost at all.
boostNone(r8, g8, b8) == <<r8, g8, b8>>

\* The dark boost: every channel of a very dark colour is raised by 10.
boost(r8, g8, b8) ==
    IF r8 < 15 /\ g8 < 15 /\ b8 < 15
    THEN <<clamp8(r8 + 10), clamp8(g8 + 10), clamp8(b8 + 10)>>
    ELSE <<r8, g8, b8>>

\* The ramp index preferred when the two candidates are equally far.
nearerOrEqual(r8, g8, b8, grayColor, cubeColor) ==
    IF colorDistance(r8, g8, b8, grayColor) <= colorDistance(r8, g8, b8, cubeColor)
    THEN grayColor
    ELSE cubeColor

\* The near-gray choice between the two candidates.
nearer(r8, g8, b8, grayColor, cubeColor) ==
    IF colorDistance(r8, g8, b8, grayColor) < colorDistance(r8, g8, b8, cubeColor)
    THEN grayColor
    ELSE cubeColor

\* The cube for every colour: the grayscale branches left out.
quantizeBoostedCubeOnly(r8, g8, b8) == cubeIndex(r8, g8, b8)

\* RGBToANSI256 from the grayscale test on, r8, g8, b8 being boosted.
quantizeBoosted(r8, g8, b8) ==
    IF isGrayscale(r8, g8, b8) THEN mapToGrayscale(r8, g8, b8)
    ELSE IF isNearGrayscale(r8, g8, b8)
    THEN nearer(r8, g8, b8, mapToGrayscale(r8, g8, b8), cubeIndex(r8, g8, b8))
    ELSE cubeIndex(r8, g8, b8)

\* The quantizer without the early return for pure black.
quantize8NoBlack(c) ==
    quantizeBoosted(boost(c[1], c[2], c[3])[1], boost(c[1], c[2], c[3])[2],
                    boost(c[1], c[2], c[3])[3])

\* RGBToANSI256 on 8-bit channels: black first, then the boost.
quantize8(c) ==
    IF c[1] = 0 /\ c[2] = 0 /\ c[3] = 0 THEN 16
    ELSE quantizeBoosted(boost(c[1], c[2], c[3])[1], boost(c[1], c[2], c[3])[2],
                         boost(c[1], c[2], c[3])[3])

\* r, g, b are uint32 (16-bit channel values, as color.RGBA() gives them).
RGBToANSI256(r, g, b) ==
    quantize8(<<clamp8(r \div 256), clamp8(g \div 256), clamp8(b \div 256)>>)

(***************************************************************************)
(* The renderer.  An image is its bounds [minX, minX+w) x [minY, minY+h)   *)
(* and its pixels: pat = <<c0, c1>> paints c0 where the offsets from the   *)
(* corner have an even sum and c1 elsewhere (c0 = c1: a solid image).      *)
(***************************************************************************)
\* RenderMode.
BlockMode == 0
HalfBlockMode == 1
BrailleMode == 2

\* pixel.RGBA() of an opaque pixel with 8-bit channels c: c * 0x101 each.
RGBA(c) == <<c[1] * 257, c[2] * 257, c[3] * 257>>

\* The pixel of the pattern at p, a point of the image.
patternAt(image, p) ==
    IF ((p[1] - image.minX) + (p[2] - image.minY)) % 2 = 0
    THEN image.pat[1] ELSE image.pat[2]

\* img.At(p).RGBA().  Outside the bounds the images of the standard library
\* return the zero colour, whose channels are all 0.
At(image, p) ==
    IF /\ p[1] >= image.minX /\ p[1] < image.minX + image.w
       /\ p[2] >= image.minY /\ p[2] < image.minY + image.h
    THEN RGBA(patternAt(image, p))
    ELSE <<0, 0, 0>>

\* The source coordinate rounded to the nearest pixel instead of truncated.
srcCoordNearest(t, extent, out) == (2 * t * extent + out) \div (2 * out)

\* int(float64(t) * float64(extent) / float64(out)): the product is an
\* integer below 2^53, hence exact; the quotient is rounded, then truncated.
srcCoord(t, extent, out) == F64Trunc(F64DivInt(F64FromInt(t * extent), out))

\* The two clamps of sampleArea, in the order of the code.
clampCoord(p, lo, hi) ==
    IF p >= hi THEN (IF hi - 1 < lo THEN lo ELSE hi - 1)
    ELSE IF p < lo THEN lo ELSE p

\* The coordinates sampleArea hands to img.At.
samplePixel(image, x, y, outWidth, outHeight) ==
    <<clampCoord(image.minX + srcCoord(x, image.w, outWidth),
                 image.minX, image.minX + image.w),
      clampCoord(image.minY + srcCoord(y, image.h, outHeight),
                 image.minY, image.minY + image.h)>>

\* Color{uint8(r32 >> 8), uint8(g32 >> 8), uint8(b32 >> 8)}.
Color(c) == <<(c[1] \div 256) % 256, (c[2] \div 256) % 256, (c[3] \div 256) % 256>>

sampleArea(image, x, y, outWidth, outHeight) ==
    Color(At(image, samplePixel(image, x, y, outWidth, outHeight)))

\* The sum kept in 8 bits, as a uint8 addition would wrap it.
clampResultWrap(result) == (result + 256) % 256

clampResult(result) == IF result > 255 THEN 255 ELSE IF result < 0 THEN 0 ELSE result

clampAddSigned(base, add) == clampResult(base + add)

matrix == << <<-2, 0>>, <<1, -1>> >>

addThreshold(r8, g8, b8, threshold) ==
    <<clampAddSigned(r8, threshold), clampAddSigned(g8, threshold),
      clampAddSigned(b8, threshold)>>

applySubtleDither(r8, g8, b8, x, y) ==
    IF ~UseDither THEN <<r8, g8, b8>>
    ELSE addThreshold(r8, g8, b8, matrix[(y % 2) + 1][(x % 2) + 1] * 2)

\* The dither applied whatever UseDither says.
ditheredAlways(color, x, y) ==
    addThreshold(color[1], color[2], color[3], matrix[(y % 2) + 1][(x % 2) + 1] * 2)

\* "if r.UseDither { r8, g8, b8 = r.applySubtleDither(r8, g8, b8, x, y) }".
dithered(color, x, y) ==
    IF UseDither THEN applySubtleDither(color[1], color[2], color[3], x, y)
    ELSE color

\* RGBToANSI256(uint32(r8)<<8, uint32(g8)<<8, uint32(b8)<<8).
toANSI(c) == RGBToANSI256(c[1] * 256, c[2] * 256, c[3] * 256)

\* The text is the sequence of the strings written to the strings.Builder, one
\* per WriteString call: a cell (escape sequences and a glyph, by code point)
\* or a newline.
SetBg(n) == [t |-> "bg", n |-> n]       \* ESC[48;5;{n}m
SetFg(n) == [t |-> "fg", n |-> n]       \* ESC[38;5;{n}m
Glyph(cp) == [t |-> "glyph", n |-> cp]
Reset == [t |-> "reset", n |-> 0]       \* ESC[0m
Newline == [t |-> "nl", n |-> 10]

Space == 32
UpperHalfBlock == 9600                  \* U+2580
BrailleBase == 10240                    \* U+2800

\* The scale of the width alone, the height budget ignored.
minScaleWidthOnly(scaleX, scaleY) == scaleX

\* The scaler at the start of RenderImage.
minScale(scaleX, scaleY) == IF F64Less(scaleY, scaleX) THEN scaleY ELSE scaleX

\* int(float64(extent) * scale).
scaledInt(extent, scale) == F64Trunc(F64Round(F64MulInt(scale, extent)))

\* int(float64(imgHeight) * scale / r.AspectRatio): dividing by 0.5 doubles
\* the rounded product exactly.
scaledHeight(imgHeight, scale) ==
    F64Trunc(F64MulInt(F64Round(F64MulInt(scale, imgHeight)), 2))

\* The height left as it is, odd or even.
evenHeightKept(h) == h

evenHeight(h) == IF h % 2 # 0 THEN h - 1 ELSE h

atLeast(v, least) == IF v <= 0 THEN least ELSE v

halfBlockSize(imgWidth, imgHeight, scale) ==
    <<atLeast(scaledInt(imgWidth, scale), 1),
      atLeast(evenHeight(scaledInt(imgHeight, scale)), 2)>>

blockSize(imgWidth, imgHeight, scale) ==
    <<atLeast(scaledInt(imgWidth, scale), 1),
      atLeast(scaledHeight(imgHeight, scale), 1)>>

\* The scaler on an image with one extent 0: the division by float64(0) gives
\* +Inf, which is not the smaller scale, and int(float64(0) * scale) is 0.
zeroWidthSize(imgHeight, mode, maxHeight) ==
    IF mode = HalfBlockMode
    THEN <<atLeast(0, 1),
           atLeast(evenHeight(scaledInt(imgHeight,
                       F64DivInt(F64FromInt(maxHeight * 2), imgHeight))), 2)>>
    ELSE <<atLeast(0, 1),
           atLeast(scaledHeight(imgHeight,
                       F64DivInt(F64MulInt(AspectRatio, maxHeight), imgHeight)), 1)>>

zeroHeightSize(imgWidth, mode, maxWidth) ==
    <<atLeast(scaledInt(imgWidth, F64DivInt(F64FromInt(maxWidth), imgWidth)), 1),
      atLeast(0, IF mode = HalfBlockMode THEN 2 ELSE 1)>>

\* <<outputWidth, outputHeight>>.
outputSize(image, mode, maxWidth, maxHeight) ==
    IF image.w = 0 THEN zeroWidthSize(image.h, mode, maxHeight)
    ELSE IF image.h = 0 THEN zeroHeightSize(image.w, mode, maxWidth)
    ELSE IF mode = HalfBlockMode
    THEN halfBlockSize(image.w, image.h,
             minScale(F64DivInt(F64FromInt(maxWidth), image.w),
                      F64DivInt(F64FromInt(maxHeight * 2), image.h)))
    ELSE blockSize(image.w, image.h,
             minScale(F64DivInt(F64FromInt(maxWidth), image.w),
                      F64DivInt(F64MulInt(AspectRatio, maxHeight), image.h)))

\* "\033[48;5;%dm \033[0m".
blockCell(ansiColor) == <<SetBg(ansiColor), Glyph(Space), Reset>>

\* One cell of renderFullBlocksImproved.
fullBlockCell(image, x, y, width, height) ==
    blockCell(toANSI(dithered(sampleArea(image, x, y, width, height), x, y)))

\* The loops write, for each y, the cells x = 0..width-1 and then "\n".
fullBlocksText(image, width, height) ==
    [i \in 1..(height * (width + 1)) |->
        IF (i - 1) % (width + 1) = width THEN <<Newline>>
        ELSE fullBlockCell(image, (i - 1) % (width + 1), (i - 1) \div (width + 1),
                           width, height)]

fullBlocksReads(image, width, height) ==
    {<<x, y>> \o samplePixel(image, x, y, width, height) :
        x \in 0..(width - 1), y \in 0..(height - 1)}

\* The two colours of the half block exchanged: the top as the background.
halfCellSwapped(topANSI, bottomANSI) ==
    IF topANSI = bottomANSI
    THEN <<SetBg(topANSI), Glyph(Space), Reset>>
    ELSE <<SetFg(bottomANSI), SetBg(topANSI), Glyph(UpperHalfBlock), Reset>>

\* The full block when both halves agree, the upper half block otherwise.
halfCell(topANSI, bottomANSI) ==
    IF topANSI = bottomANSI
    THEN <<SetBg(topANSI), Glyph(Space), Reset>>
    ELSE <<SetFg(topANSI), SetBg(bottomANSI), Glyph(UpperHalfBlock), Reset>>

\* The bottom row is y + 1, or the top colour again when there is none.
bottomColor(image, x, y, width, height) ==
    IF y + 1 < height THEN sampleArea(image, x, y + 1, width, height)
    ELSE sampleArea(image, x, y, width, height)

\* One cell of renderHalfBlocksImproved: rows y (top) and y+1 (bottom).
halfBlockCell(image, x, y, width, height) ==
    halfCell(toANSI(dithered(sampleArea(image, x, y, width, height), x, y)),
             toANSI(dithered(bottomColor(image, x, y, width, height), x, y + 1)))

\* The loop "for y := 0; y < height; y += 2" runs for y = 0, 2, 4, ...
halfBlocksText(image, width, height) ==
    [i \in 1..(((height + 1) \div 2) * (width + 1)) |->
        IF (i - 1) % (width + 1) = width THEN <<Newline>>
        ELSE halfBlockCell(image, (i - 1) % (width + 1),
                           2 * ((i - 1) \div (width + 1)), width, height)]

\* Row y is read as a top row when it is even and as the bottom row of y - 1
\* when it is odd: every row below height is read.
halfBlocksReads(image, width, height) ==
    {<<x, y>> \o samplePixel(image, x, y, width, height) :
        x \in 0..(width - 1), y \in 0..(height - 1)}

\* brailleDotMask(x, y): the bit of the dot in column x, row y.
dotMap == << <<1, 2, 4, 64>>, <<8, 16, 32, 128>> >>

brailleDotMask(x, y) ==
    IF x >= 0 /\ x < 2 /\ y >= 0 /\ y < 4 THEN dotMap[x + 1][y + 1] ELSE 0

\* The bitwise or of a set of uint8 masks (pattern |= mask, for each of them).
BitOr(masks) ==
    LET or(k) == IF \E m \in masks : (m \div 2^k) % 2 = 1 THEN 2^k ELSE 0
    IN  or(0) + or(1) + or(2) + or(3) + or(4) + or(5) + or(6) + or(7)

\* The dots with their colours dithered as the block renderers dither them.
dotColorsDithered(image, bx, by, width, height) ==
    [d \in {e \in (0..1) \X (0..3) :
                bx * 2 + e[1] < width /\ by * 4 + e[2] < height} |->
        dithered(sampleArea(image, bx * 2 + d[1], by * 4 + d[2], width, height),
                 bx * 2 + d[1], by * 4 + d[2])]

\* The dots <<px, py>> of cell (bx, by) that pass the test
\* "imgSampleX < width && imgSampleY < height", each with its sampled colour.
dotColors(image, bx, by, width, height) ==
    [d \in {e \in (0..1) \X (0..3) :
                bx * 2 + e[1] < width /\ by * 4 + e[2] < height} |->
        sampleArea(image, bx * 2 + d[1], by * 4 + d[2], width, height)]

\* The threshold included: a dot is set when the luminance is 128 or more.
isLitOrEqual(color) ==
    ~F64Less(luminance(color[1], color[2], color[3]), F64FromInt(128))

\* The comparison turned round: a dot is set when the sample is dark.
isLitBelow(color) ==
    F64Less(luminance(color[1], color[2], color[3]), F64FromInt(128))

\* "lum > 128".
isLit(color) ==
    F64Less(F64FromInt(128), luminance(color[1], color[2], color[3]))

brailleBits(colors) ==
    BitOr({brailleDotMask(d[1], d[2]) : d \in {e \in DOMAIN colors : isLit(colors[e])}})

\* avgR, avgG, avgB (k = 1, 2, 3) after the loops.
channelAt(colors, d, k) == IF d \in DOMAIN colors THEN colors[d][k] ELSE 0

channelSum(colors, k) ==
    channelAt(colors, <<0, 0>>, k) + channelAt(colors, <<1, 0>>, k)
        + channelAt(colors, <<0, 1>>, k) + channelAt(colors, <<1, 1>>, k)
        + channelAt(colors, <<0, 2>>, k) + channelAt(colors, <<1, 2>>, k)
        + channelAt(colors, <<0, 3>>, k) + channelAt(colors, <<1, 3>>, k)

\* finalR8, finalG8, finalB8.
finalChannel(colors, k, count) ==
    IF count > 0 THEN (channelSum(colors, k) \div count) % 256 ELSE 0

finalColor(colors) ==
    <<finalChannel(colors, 1, Cardinality(DOMAIN colors)),
      finalChannel(colors, 2, Cardinality(DOMAIN colors)),
      finalChannel(colors, 3, Cardinality(DOMAIN colors))>>

\* "\033[38;5;%dm%c\033[0m" of the cell whose dots have these colours.
brailleGlyph(colors) ==
    <<SetFg(toANSI(finalColor(colors))), Glyph(BrailleBase + brailleBits(colors)), Reset>>

\* One cell of renderBraille.
brailleCell(image, bx, by, width, height) ==
    brailleGlyph(dotColors(image, bx, by, width, height))

\* The number of cells rounded down instead of up.
brailleWidthFloor(width) == IF width \div 2 <= 0 THEN 1 ELSE width \div 2

brailleWidth(width) == IF (width + 1) \div 2 <= 0 THEN 1 ELSE (width + 1) \div 2

\* One more row of cells than the height needs when it is a multiple of 4.
brailleHeightExtra(height) == (height + 4) \div 4

brailleHeight(height) == IF (height + 3) \div 4 <= 0 THEN 1 ELSE (height + 3) \div 4

brailleText(image, width, height) ==
    [i \in 1..(brailleHeight(height) * (brailleWidth(width) + 1)) |->
        IF (i - 1) % (brailleWidth(width) + 1) = brailleWidth(width) THEN <<Newline>>
        ELSE brailleCell(image, (i - 1) % (brailleWidth(width) + 1),
                         (i - 1) \div (brailleWidth(width) + 1), width, height)]

brailleReads(image, width, height) ==
    {<<s[1], s[2]>> \o samplePixel(image, s[1], s[2], width, height) :
        s \in {t \in (0..(2 * brailleWidth(width) - 1))
                        \X (0..(4 * brailleHeight(height) - 1)) :
                    t[1] < width /\ t[2] < height}}

\* The show command is not running: its variables keep these values.
NoShow ==
    /\ useFullBlocks = FALSE
    /\ useBraille = FALSE
    /\ noColor = FALSE
    /\ renderWidth = 0
    /\ renderHeight = 0
    /\ isURL = FALSE
    /\ failure = "none"
    /\ termSize = <<0, 0>>
    /\ decoded = [minX |-> 0, minY |-> 0, w |-> 0, h |-> 0, pat |-> <<>>]
    /\ overridden = {}
    /\ stdout = <<>>

(***************************************************************************)
(* The renderer as a state machine.  RenderImage computes the output size  *)
(* and hands over to the renderer of the mode, which builds the text.      *)
(***************************************************************************)
MaxImgWidth == 4
MaxImgHeight == 4
MaxCols == 5
MaxRows == 5

Black == <<0, 0, 0>>
White == <<255, 255, 255>>
Red == <<255, 0, 0>>
Dark == <<3, 3, 3>>
Olive == <<120, 130, 40>>

Patterns ==
    {<<c, c>> : c \in {Black, White, Red}}
        \cup {<<Black, White>>, <<White, Dark>>, <<Red, Olive>>}

\* bounds.Min of the images: a sub-image, whose corner is not the origin.
Corner == <<2, 3>>

Images ==
    {[minX |-> Corner[1], minY |-> Corner[2], w |-> w, h |-> h, pat |-> p] :
        w \in 1..MaxImgWidth, h \in 1..MaxImgHeight, p \in Patterns}

Init ==
    /\ pc = "RenderImage"
    /\ fma \in BOOLEAN
    /\ col = <<0, 0, 0>>
    /\ ansi = 0
    /\ img \in Images
    /\ Mode \in {BlockMode, HalfBlockMode, BrailleMode}
    /\ MaxWidth \in 1..MaxCols
    /\ MaxHeight \in 1..MaxRows
    /\ UseDither \in BOOLEAN
    /\ outputWidth = 0
    /\ outputHeight = 0
    /\ output = <<>>
    /\ reads = {}
    /\ previous = <<>>
    /\ atX = 0
    /\ atY = 0
    /\ dithOut = <<0, 0, 0>>
    /\ NoShow

RenderImage ==
    /\ pc = "RenderImage"
    /\ LET size == outputSize(img, Mode, MaxWidth, MaxHeight)
       IN  /\ outputWidth' = size[1]
           /\ outputHeight' = size[2]
    /\ pc' = "render"
    /\ UNCHANGED <<previous, fma, col, ansi, img, Mode, MaxWidth, MaxHeight, UseDither,
                   output, reads, ditherVars, showVars>>

renderFullBlocksImproved ==
    /\ pc = "render"
    /\ Mode \notin {HalfBlockMode, BrailleMode}
    /\ output' = fullBlocksText(img, outputWidth, outputHeight)
    /\ reads' = fullBlocksReads(img, outputWidth, outputHeight)
    /\ pc' = "done"
    /\ UNCHANGED <<previous, fma, col, ansi, img, Mode, MaxWidth, MaxHeight, UseDither,
                   outputWidth, outputHeight, ditherVars, showVars>>

renderHalfBlocksImproved ==
    /\ pc = "render"
    /\ Mode = HalfBlockMode
    /\ output' = halfBlocksText(img, outputWidth, outputHeight)
    /\ reads' = halfBlocksReads(img, outputWidth, outputHeight)
    /\ pc' = "done"
    /\ UNCHANGED <<previous, fma, col, ansi, img, Mode, MaxWidth, MaxHeight, UseDither,
                   outputWidth, outputHeight, ditherVars, showVars>>

renderBraille ==
    /\ pc = "render"
    /\ Mode = BrailleMode
    /\ output' = brailleText(img, outputWidth, outputHeight)
    /\ reads' = brailleReads(img, outputWidth, outputHeight)
    /\ pc' = "done"
    /\ UNCHANGED <<previous, fma, col, ansi, img, Mode, MaxWidth, MaxHeight, UseDither,
                   outputWidth, outputHeight, ditherVars, showVars>>

Next ==
    \/ RenderImage
    \/ renderFullBlocksImproved
    \/ renderHalfBlocksImproved
    \/ renderBraille

Spec == Init /\ [][Next]_vars

(***************************************************************************)
(* The renderer on a zero-area image: one extent is 0, the other is not    *)
(* (with both 0 the scaler converts a NaN to int, which the language       *)
(* leaves to the implementation; that case is not part of this model).     *)
(* Such an image has no pixel.                                             *)
(***************************************************************************)
ZeroImages ==
    {[minX |-> Corner[1], minY |-> Corner[2], w |-> 0, h |-> h,
      pat |-> <<Black, Black>>] : h \in 1..MaxImgHeight}
        \cup {[minX |-> Corner[1], minY |-> Corner[2], w |-> w, h |-> 0,
                pat |-> <<Black, Black>>] : w \in 1..MaxImgWidth}

InitZeroArea ==
    /\ pc = "RenderImage"
    /\ fma \in BOOLEAN
    /\ col = <<0, 0, 0>>
    /\ ansi = 0
    /\ img \in ZeroImages
    /\ Mode \in {BlockMode, HalfBlockMode, BrailleMode}
    /\ MaxWidth \in 1..MaxCols
    /\ MaxHeight \in 1..MaxRows
    /\ UseDither \in BOOLEAN
    /\ outputWidth = 0
    /\ outputHeight = 0
    /\ output = <<>>
    /\ reads = {}
    /\ previous = <<>>
    /\ atX = 0
    /\ atY = 0
    /\ dithOut = <<0, 0, 0>>
    /\ NoShow

SpecZeroArea == InitZeroArea /\ [][Next]_vars

(***************************************************************************)
(* The Braille renderer called twice by one caller: the caller keeps the   *)
(* text of the first call, sets the field UseDither to its other value and *)
(* renders the same image again.  The images have pixels whose luminance   *)
(* is at the threshold 128 and next to it.                                 *)
(***************************************************************************)
Gray128 == <<128, 128, 128>>
Gray129 == <<129, 129, 129>>
\* 0.299*30 + 0.587*202 + 0.114*4 is 128 exactly, in float64 as well.
Tie == <<30, 202, 4>>

BraillePatterns == {<<Tie, Gray129>>, <<Gray128, White>>, <<Black, White>>}

BrailleImages ==
    {[minX |-> Corner[1], minY |-> Corner[2], w |-> w, h |-> h, pat |-> p] :
        w \in 1..MaxImgWidth, h \in 1..MaxImgHeight, p \in BraillePatterns}

InitBraille ==
    /\ pc = "RenderImage"
    /\ fma \in BOOLEAN
    /\ col = <<0, 0, 0>>
    /\ ansi = 0
    /\ img \in BrailleImages
    /\ Mode = BrailleMode
    /\ MaxWidth \in 1..MaxCols
    /\ MaxHeight \in 1..MaxRows
    /\ UseDither \in BOOLEAN
    /\ outputWidth = 0
    /\ outputHeight = 0
    /\ output = <<>>
    /\ reads = {}
    /\ previous = <<>>
    /\ atX = 0
    /\ atY = 0
    /\ dithOut = <<0, 0, 0>>
    /\ NoShow

\* "renderer.UseDither = ..." between two calls of RenderImage; the second
\* call starts with nothing written and nothing read.
SetUseDither ==
    /\ pc = "done"
    /\ previous = <<>>
    /\ previous' = output
    /\ UseDither' = ~UseDither
    /\ outputWidth' = 0
    /\ outputHeight' = 0
    /\ output' = <<>>
    /\ reads' = {}
    /\ pc' = "RenderImage"
    /\ UNCHANGED <<fma, col, ansi, img, Mode, MaxWidth, MaxHeight, ditherVars,
                   showVars>>

NextBraille ==
    \/ RenderImage
    \/ renderBraille
    \/ SetUseDither

SpecBraille == InitBraille /\ [][NextBraille]_vars

(***************************************************************************)
(* The show command (cmd/show.go, showCmd.Run): the dimension check, the   *)
(* image obtained from a file or a URL and decoded, the renderer           *)
(* configured from the flags, RenderImage, the output printed.             *)
(***************************************************************************)
MaxFlag == 2

\* The values of --width and --height: negative, 0 (auto), positive.
FlagValues == (0 - 1)..MaxFlag

\* What term.GetSize returns; <<>> stands for its error.
TermSizes == {<<6, 7>>, <<7, 8>>, <<>>}

\* The argument and what goes wrong with it.
Sources ==
    {<<TRUE, "http">>, <<TRUE, "status">>, <<TRUE, "decode">>, <<TRUE, "none">>,
     <<FALSE, "open">>, <<FALSE, "decode">>, <<FALSE, "none">>}

DecodedImages ==
    {[minX |-> 0, minY |-> 0, w |-> 2, h |-> 2, pat |-> p] :
        p \in {<<Red, Red>>, <<Black, White>>}}

NoImage == [minX |-> 0, minY |-> 0, w |-> 0, h |-> 0, pat |-> <<>>]

InitShow ==
    /\ pc = "show"
    /\ fma \in BOOLEAN
    /\ col = <<0, 0, 0>>
    /\ ansi = 0
    /\ img = NoImage
    /\ Mode = BlockMode
    /\ MaxWidth = 0
    /\ MaxHeight = 0
    /\ UseDither = FALSE
    /\ outputWidth = 0
    /\ outputHeight = 0
    /\ output = <<>>
    /\ reads = {}
    /\ previous = <<>>
    /\ atX = 0
    /\ atY = 0
    /\ dithOut = <<0, 0, 0>>
    /\ useFullBlocks \in BOOLEAN
    /\ useBraille \in BOOLEAN
    /\ noColor \in BOOLEAN
    /\ renderWidth \in FlagValues
    /\ renderHeight \in FlagValues
    /\ \E src \in Sources : isURL = src[1] /\ failure = src[2]
    /\ termSize \in TermSizes
    /\ decoded \in DecodedImages
    /\ overridden = {}
    /\ stdout = <<>>

\* "if (renderWidth > 0 && renderHeight == 0) || (renderHeight > 0 && renderWidth == 0)".
dimensionMismatch(width, height) ==
    (width > 0 /\ height = 0) \/ (height > 0 /\ width = 0)

ShowCheckDimensions ==
    /\ pc = "show"
    /\ IF dimensionMismatch(renderWidth, renderHeight)
       THEN stdout' = Append(stdout, "DimensionError") /\ pc' = "returned"
       ELSE stdout' = stdout /\ pc' = "open"
    /\ UNCHANGED <<previous, fma, col, ansi, img, Mode, MaxWidth, MaxHeight, UseDither,
                   outputWidth, outputHeight, output, reads, ditherVars,
                   useFullBlocks, useBraille, noColor, renderWidth, renderHeight,
                   isURL, failure, termSize, decoded, overridden>>

\* What the branch of the URL, or of the path, prints, and whether it returns.
openMessages(url, fail) ==
    IF url
    THEN IF fail = "http" THEN <<"Downloading", "DownloadError">>
         ELSE IF fail = "status" THEN <<"Downloading", "StatusError">>
         ELSE <<"Downloading">>
    ELSE IF fail = "open" THEN <<"Loading", "OpenError">>
         ELSE <<"Loading">>

\* The download taken as good whatever the status code.
openFailsStatusIgnored(url, fail) == IF url THEN fail = "http" ELSE fail = "open"

openFails(url, fail) ==
    IF url THEN fail \in {"http", "status"} ELSE fail = "open"

ShowOpen ==
    /\ pc = "open"
    /\ stdout' = stdout \o openMessages(isURL, failure)
    /\ pc' = IF openFails(isURL, failure) THEN "returned" ELSE "decode"
    /\ UNCHANGED <<previous, fma, col, ansi, img, Mode, MaxWidth, MaxHeight, UseDither,
                   outputWidth, outputHeight, output, reads, ditherVars,
                   useFullBlocks, useBraille, noColor, renderWidth, renderHeight,
                   isURL, failure, termSize, decoded, overridden>>

ShowDecode ==
    /\ pc = "decode"
    /\ IF failure = "decode"
       THEN /\ stdout' = Append(stdout, "DecodeError")
            /\ pc' = "returned"
            /\ img' = img
       ELSE /\ stdout' = Append(stdout, "Loaded")
            /\ pc' = "configure"
            /\ img' = decoded
    /\ UNCHANGED <<previous, fma, col, ansi, Mode, MaxWidth, MaxHeight, UseDither,
                   outputWidth, outputHeight, output, reads, ditherVars,
                   useFullBlocks, useBraille, noColor, renderWidth, renderHeight,
                   isURL, failure, termSize, decoded, overridden>>

\* The two tests in the other order: --braille wins over --full.
selectModeBrailleFirst(full, braille) ==
    IF braille THEN BrailleMode ELSE IF full THEN BlockMode ELSE HalfBlockMode

\* "mode := HalfBlockMode; if useFullBlocks {...} else if useBraille {...}".
selectMode(full, braille) ==
    IF full THEN BlockMode ELSE IF braille THEN BrailleMode ELSE HalfBlockMode

\* The size NewImageRenderer starts from: 100 x 28 when term.GetSize fails.
DefaultSize == <<100, 28>>

terminal(size) == IF size = <<>> THEN DefaultSize ELSE size

\* NewImageRenderer(mode): MaxWidth and MaxHeight leave a margin.
NewImageRenderer(mode, size) ==
    [Mode |-> mode, MaxWidth |-> terminal(size)[1] - 2,
     MaxHeight |-> terminal(size)[2] - 3, UseDither |-> TRUE]

\* "if renderWidth > 0 { renderer.MaxWidth = renderWidth }", and the height.
override(flag, value) == IF flag > 0 THEN flag ELSE value

overriddenFields(width, height) ==
    (IF width > 0 THEN {"MaxWidth"} ELSE {})
        \cup (IF height > 0 THEN {"MaxHeight"} ELSE {})

ShowConfigure ==
    /\ pc = "configure"
    /\ Mode' = NewImageRenderer(selectMode(useFullBlocks, useBraille), termSize).Mode
    /\ UseDither' = ~noColor
    /\ MaxWidth' = override(renderWidth,
                       NewImageRenderer(selectMode(useFullBlocks, useBraille),
                                        termSize).MaxWidth)
    /\ MaxHeight' = override(renderHeight,
                        NewImageRenderer(selectMode(useFullBlocks, useBraille),
                                         termSize).MaxHeight)
    /\ overridden' = overriddenFields(renderWidth, renderHeight)
    /\ pc' = "RenderImage"
    /\ UNCHANGED <<previous, fma, col, ansi, img, outputWidth, outputHeight, output, reads,
                   ditherVars, useFullBlocks, useBraille, noColor, renderWidth,
                   renderHeight, isURL, failure, termSize, decoded, stdout>>

\* "fmt.Print(output)".
ShowPrint ==
    /\ pc = "done"
    /\ stdout' = Append(stdout, "Output")
    /\ pc' = "printed"
    /\ UNCHANGED <<previous, fma, col, ansi, img, Mode, MaxWidth, MaxHeight, UseDither,
                   outputWidth, outputHeight, output, reads, ditherVars,
                   useFullBlocks, useBraille, noColor, renderWidth, renderHeight,
                   isURL, failure, termSize, decoded, overridden>>

NextShow ==
    \/ ShowCheckDimensions
    \/ ShowOpen
    \/ ShowDecode
    \/ ShowConfigure
    \/ RenderImage
    \/ renderFullBlocksImproved
    \/ renderHalfBlocksImproved
    \/ renderBraille
    \/ ShowPrint

SpecShow == InitShow /\ [][NextShow]_vars

(***************************************************************************)
(* The quantizer as a state machine: a colour is given, RGBToANSI256 is    *)
(* applied to it.  The inputs are every gray, every colour near the gray   *)
(* diagonal at the spreads the code tests (10, 30), and every combination  *)
(* of the values at which a branch of the code changes.                    *)
(***************************************************************************)
Thresholds == {48, 95, 142, 189, 236}

EdgeVals == {0, 1, 14, 15, 255} \cup Thresholds \cup {t - 1 : t \in Thresholds}

Offsets == {0, 10, 11, 30, 31}

\* Every colour whose channels are all below the limit of the dark boost.
DarkColours == (0..14) \X (0..14) \X (0..14)

\* Near-gray colours at which the two candidates are equally far.
TieColours == {<<15, 0, 2>>, <<16, 1, 0>>, <<18, 0, 0>>, <<78, 96, 100>>}

QColours ==
    {<<v, v, v>> : v \in 0..255}
        \cup DarkColours
        \cup TieColours
        \cup (EdgeVals \X EdgeVals \X EdgeVals)
        \cup {<<vd[1] + vd[2], vd[1] + vd[3], vd[1] + vd[4]>> :
                vd \in {x \in (0..255) \X Offsets \X Offsets \X Offsets :
                            /\ x[1] + x[2] <= 255
                            /\ x[1] + x[3] <= 255
                            /\ x[1] + x[4] <= 255}}

InitQuantizer ==
    /\ pc = "quantize"
    /\ fma \in BOOLEAN
    /\ col \in QColours
    /\ ansi = 0
    /\ img = NoImage
    /\ Mode = BlockMode
    /\ MaxWidth = 0
    /\ MaxHeight = 0
    /\ UseDither = FALSE
    /\ outputWidth = 0
    /\ outputHeight = 0
    /\ output = <<>>
    /\ reads = {}
    /\ previous = <<>>
    /\ atX = 0
    /\ atY = 0
    /\ dithOut = <<0, 0, 0>>
    /\ NoShow

\* The call RGBToANSI256(uint32(r8)<<8, uint32(g8)<<8, uint32(b8)<<8).
Quantize ==
    /\ pc = "quantize"
    /\ ansi' = RGBToANSI256(col[1] * 256, col[2] * 256, col[3] * 256)
    /\ pc' = "quantized"
    /\ UNCHANGED <<previous, fma, col, img, Mode, MaxWidth, MaxHeight, UseDither,
                   outputWidth, outputHeight, output, reads, ditherVars, showVars>>

NextQuantizer == Quantize

SpecQuantizer == InitQuantizer /\ [][NextQuantizer]_vars

(***************************************************************************)
(* The ditherer as a state machine: applySubtleDither is applied to a      *)
(* colour at a position, with UseDither on or off.  The channels are the   *)
(* values around both clamps and one in the middle.                        *)
(***************************************************************************)
MaxCoord == 3

DitherVals == {0, 1, 3, 4, 5, 128, 252, 253, 254, 255}

InitDither ==
    /\ pc = "dither"
    /\ fma = FALSE
    /\ col \in DitherVals \X DitherVals \X DitherVals
    /\ ansi = 0
    /\ img = NoImage
    /\ Mode = BlockMode
    /\ MaxWidth = 0
    /\ MaxHeight = 0
    /\ UseDither \in BOOLEAN
    /\ outputWidth = 0
    /\ outputHeight = 0
    /\ output = <<>>
    /\ reads = {}
    /\ previous = <<>>
    /\ atX \in 0..MaxCoord
    /\ atY \in 0..MaxCoord
    /\ dithOut = <<0, 0, 0>>
    /\ NoShow

\* The call r.applySubtleDither(r8, g8, b8, x, y).
ApplySubtleDither ==
    /\ pc = "dither"
    /\ dithOut' = applySubtleDither(col[1], col[2], col[3], atX, atY)
    /\ pc' = "dithered"
    /\ UNCHANGED <<previous, fma, col, ansi, img, Mode, MaxWidth, MaxHeight, UseDither,
                   outputWidth, outputHeight, output, reads, atX, atY, showVars>>

NextDither == ApplySubtleDither

SpecDither == InitDither /\ [][NextDither]_vars

(***************************************************************************)
(* Claims about the quantizer (checked under SpecQuantizer).               *)
(***************************************************************************)
Spread(c) == maxUint8(c[1], c[2], c[3]) - minUint8(c[1], c[2], c[3])

\* C1: for every input colour RGBToANSI256 returns an index in 16..255,
\* never one of the 16 reserved low indices 0..15.
C1_IndexInRange == pc = "quantized" => ansi \in 16..255

C1_Witness == pc = "quantized" /\ col = <<255, 95, 47>> /\ ansi = 208

\* C2: pure black (R=G=B=0) is mapped to exactly 16: the test comes before
\* the dark boost and the grayscale test, both of which would give 232.
C2_BlackIs16 == (pc = "quantized" /\ col = <<0, 0, 0>>) => ansi = 16

C2_Witness == pc = "quantized" /\ col = <<0, 0, 0>> /\ ansi = 16

\* C3 as stated: every gray R=G=B=v, v in 0..255, is mapped to a
\* grayscale-ramp index 232..255.
C3_EveryGrayOnRamp ==
    (pc = "quantized" /\ col[1] = col[2] /\ col[2] = col[3])
        => ansi \in 232..255

\* C3 as amended: every gray R=G=B=v with v in 1..255 is mapped to a
\* grayscale-ramp index 232..255 (pure black, v = 0, is mapped to 16).
C3_NonBlackGrayOnRamp ==
    (pc = "quantized" /\ col[1] = col[2] /\ col[2] = col[3] /\ col[1] >= 1)
        => ansi \in 232..255

C3_Witness == pc = "quantized" /\ col = <<128, 128, 128>> /\ ansi \in 232..255

\* C4: a colour whose channel spread exceeds 30 is mapped to exactly the cube
\* index 16 + 36*Rl + 6*Gl + Bl, each level being the bucket 0..5 of the channel
\* under the thresholds 48, 95, 142, 189, 236; the result lies in 16..231.
Bucket(v) == Cardinality({t \in {48, 95, 142, 189, 236} : v >= t})

C4_SaturatedInCube ==
    (pc = "quantized" /\ Spread(col) > 30)
        => /\ ansi = 16 + 36 * Bucket(col[1]) + 6 * Bucket(col[2]) + Bucket(col[3])
           /\ ansi \in 16..231

C4_Witness == pc = "quantized" /\ col = <<255, 0, 0>> /\ ansi = 196

\* C5: the returned index minimises the weighted squared distance
\* 2*dR^2 + 4*dG^2 + 3*dB^2 to the input over all palette indices 16..255.
C5_NearestInPalette ==
    pc = "quantized"
        => \A i \in 16..255 :
              colorDistance(col[1], col[2], col[3], ansi)
                  <= colorDistance(col[1], col[2], col[3], i)

(***************************************************************************)
(* Claims about the renderer (checked under Spec).                         *)
(***************************************************************************)
\* C6: for every image of at least 1x1 pixels, every positive MaxWidth and
\* MaxHeight and every mode, the output size computed by RenderImage has
\* width >= 1 and height >= 1, in HalfBlock mode the height is even and >= 2,
\* and the divisors of the computation (the image's width and height) are
\* not zero.
C6_OutputSizePositive ==
    pc \in {"render", "done"}
        => /\ outputWidth >= 1
           /\ outputHeight >= 1
           /\ Mode = HalfBlockMode => outputHeight % 2 = 0 /\ outputHeight >= 2
           /\ img.w # 0 /\ img.h # 0

C6_Witness ==
    /\ pc = "render"
    /\ Mode = HalfBlockMode
    /\ img.w = 1 /\ img.h = 3
    /\ MaxWidth = 1 /\ MaxHeight = 5
    /\ outputWidth = 1 /\ outputHeight = 2

\* The number of "\n" written, and the test that no more than n cells are
\* written in a row without one.
LineCount == Cardinality({i \in DOMAIN output : output[i] = <<Newline>>})

CellsPerLineAtMost(n) ==
    \A i \in DOMAIN output :
        i > n => \E k \in (i - n)..i : output[k] = <<Newline>>

\* C7: the rendered text fits the budget: in each mode no line has more than
\* MaxWidth cells and there are at most MaxHeight lines; in HalfBlock mode the
\* pixel height is at most 2*MaxHeight and height/2 lines are written.
C7_FitsBudget ==
    pc = "done"
        => /\ CellsPerLineAtMost(MaxWidth)
           /\ LineCount <= MaxHeight
           /\ Mode = HalfBlockMode
                => outputHeight <= 2 * MaxHeight /\ LineCount = outputHeight \div 2

C7_Witness ==
    /\ pc = "done"
    /\ Mode = HalfBlockMode
    /\ img.w = 4 /\ img.h = 4
    /\ MaxWidth = 2 /\ MaxHeight = 1
    /\ outputWidth = 2 /\ outputHeight = 2
    /\ LineCount = 1 /\ Len(output) = 3

GridLines ==
    IF Mode = HalfBlockMode THEN outputHeight \div 2
    ELSE IF Mode = BrailleMode THEN (outputHeight + 3) \div 4
    ELSE outputHeight

GridCells == IF Mode = BrailleMode THEN (outputWidth + 1) \div 2 ELSE outputWidth

IsBlockCell(cell) ==
    /\ Len(cell) = 3
    /\ cell[1].t = "bg" /\ cell[1].n \in 0..255
    /\ cell[2] = Glyph(Space)
    /\ cell[3] = Reset

IsHalfBlockCell(cell) ==
    \/ IsBlockCell(cell)
    \/ /\ Len(cell) = 4
       /\ cell[1].t = "fg" /\ cell[2].t = "bg"
       /\ cell[3] = Glyph(UpperHalfBlock)
       /\ cell[4] = Reset

IsBrailleCell(cell) ==
    /\ Len(cell) = 3
    /\ cell[1].t = "fg"
    /\ cell[2].t = "glyph" /\ cell[2].n \in BrailleBase..(BrailleBase + 255)
    /\ cell[3] = Reset

\* C9: the text has the grid shape of the mode: Block writes height lines of
\* width cells, each "set background n, space, reset"; HalfBlock writes
\* height/2 lines of width cells; Braille writes ceil(height/4) lines of
\* ceil(width/2) glyphs; every line ends with exactly one newline.  A 1x1 red
\* image in Block mode with MaxWidth = MaxHeight = 1, dither off, gives one
\* cell with a background index in 16..231, one space, one reset, one newline.
C9_GridShape ==
    pc = "done"
        => /\ Len(output) = GridLines * (GridCells + 1)
           /\ \A i \in DOMAIN output :
                IF i % (GridCells + 1) = 0 THEN output[i] = <<Newline>>
                ELSE IF Mode = HalfBlockMode THEN IsHalfBlockCell(output[i])
                ELSE IF Mode = BrailleMode THEN IsBrailleCell(output[i])
                ELSE IsBlockCell(output[i])
           /\ ( /\ img.w = 1 /\ img.h = 1 /\ img.pat = <<Red, Red>>
                /\ Mode = BlockMode /\ MaxWidth = 1 /\ MaxHeight = 1
                /\ ~UseDither )
                => /\ Len(output) = 2
                   /\ IsBlockCell(output[1])
                   /\ output[1][1].n \in 16..231
                   /\ output[2] = <<Newline>>

C9_Witness ==
    /\ pc = "done"
    /\ img.w = 1 /\ img.h = 1 /\ img.pat = <<Red, Red>>
    /\ Mode = BlockMode /\ MaxWidth = 1 /\ MaxHeight = 1
    /\ ~UseDither
    /\ output = << <<SetBg(196), Glyph(Space), Reset>>, <<Newline>> >>

\* C10: for an image whose every pixel is pure black, rendered in any mode
\* with UseDither off, every colour index in the output (background,
\* foreground, Braille foreground) is 16.
C10_BlackImageAll16 ==
    (pc = "done" /\ img.pat = <<Black, Black>> /\ ~UseDither)
        => \A i \in DOMAIN output :
              \A j \in DOMAIN output[i] :
                  output[i][j].t \in {"bg", "fg"} => output[i][j].n = 16

C10_Witness ==
    /\ pc = "done"
    /\ img.pat = <<Black, Black>> /\ img.w = 2 /\ img.h = 2
    /\ ~UseDither
    /\ Mode = BrailleMode
    /\ output[1] = <<SetFg(16), Glyph(BrailleBase), Reset>>

\* The bits of the dots of a Braille cell that lie in the output grid, when
\* cols of its 2 columns and rows of its 4 rows do.
ColumnBits(rows, column) ==
    IF column = 0 THEN <<1, 3, 7, 71>>[rows] ELSE <<8, 24, 56, 184>>[rows]

GridBits(cols, rows) ==
    ColumnBits(rows, 0) + (IF cols = 2 THEN ColumnBits(rows, 1) ELSE 0)

Least(a, b) == IF a < b THEN a ELSE b

\* The bits of the cell written as chunk i of a Braille text.
GridBitsAt(i) ==
    GridBits(Least(2, outputWidth - 2 * ((i - 1) % (GridCells + 1))),
             Least(4, outputHeight - 4 * ((i - 1) \div (GridCells + 1))))

\* C11 as stated: in Braille mode on a fully white image every cell has the
\* bit pattern 0xFF, i.e. every glyph is the code point 0x28FF.
C11_WhiteEveryCellFull ==
    (pc = "done" /\ Mode = BrailleMode /\ img.pat = <<White, White>>)
        => \A i \in DOMAIN output :
              output[i] # <<Newline>> => output[i][2] = Glyph(BrailleBase + 255)

\* C11 as amended: in Braille mode on a fully white image every cell has
\* exactly the dots set that lie in the output grid (column 2*bx + px < width,
\* row 4*by + py < height); the pattern is 0xFF, the glyph 0x28FF, for every
\* cell whose 8 dots do, hence for all cells when the width is even and the
\* height a multiple of 4.
C11_WhiteDotsInGrid ==
    (pc = "done" /\ Mode = BrailleMode /\ img.pat = <<White, White>>)
        => /\ \A i \in DOMAIN output :
                output[i] # <<Newline>>
                    => output[i][2] = Glyph(BrailleBase + GridBitsAt(i))
           /\ (outputWidth % 2 = 0 /\ outputHeight % 4 = 0)
                => \A i \in DOMAIN output :
                      output[i] # <<Newline>>
                          => output[i][2] = Glyph(BrailleBase + 255)

C11_Witness ==
    /\ pc = "done"
    /\ Mode = BrailleMode
    /\ img.pat = <<White, White>>
    /\ outputWidth = 2 /\ outputHeight = 4
    /\ output = << <<SetFg(255), Glyph(BrailleBase + 255), Reset>>, <<Newline>> >>

(***************************************************************************)
(* Claims about the ditherer (checked under SpecDither).                   *)
(***************************************************************************)
\* 2 * M[y mod 2][x mod 2] with M = [[-2, 0], [1, -1]].
DitherOffset(xx, yy) ==
    IF yy % 2 = 0 THEN (IF xx % 2 = 0 THEN -4 ELSE 0)
    ELSE (IF xx % 2 = 0 THEN 2 ELSE -2)

ClampByte(v) == IF v < 0 THEN 0 ELSE IF v > 255 THEN 255 ELSE v

\* C12: with UseDither on and x, y >= 0, applySubtleDither adds the same
\* offset 2*M[y mod 2][x mod 2] (-4, 0, +2 or -2) to all three channels and
\* clamps each result to 0..255 without wrap-around; with UseDither off it
\* returns the input colour unchanged.  The result depends on nothing but
\* the colour, x, y and UseDither.
C12_DitherOffsetClamped ==
    pc = "dithered"
        => IF UseDither
           THEN \A k \in 1..3 :
                   dithOut[k] = ClampByte(col[k] + DitherOffset(atX, atY))
           ELSE dithOut = col

C12_Witness ==
    /\ pc = "dithered"
    /\ UseDither
    /\ col = <<0, 128, 255>>
    /\ atX = 2 /\ atY = 0
    /\ dithOut = <<0, 124, 251>>

(***************************************************************************)
(* Claims about zero-area images (checked under SpecZeroArea).             *)
(***************************************************************************)
\* C13: a zero-area source image (width 0 or height 0) is treated as a
\* no-op: RenderImage returns an empty output, no cells and no lines, and
\* reads no pixel.
C13_ZeroAreaIsNoOp ==
    (pc = "done" /\ (img.w = 0 \/ img.h = 0))
        => output = <<>> /\ reads = {}

(***************************************************************************)
(* Further claims about the quantizer (checked under SpecQuantizer).       *)
(***************************************************************************)
\* The level 0..5 of a cube index on an axis (1 red, 2 green, 3 blue).
CubeLevel(i, axis) ==
    IF axis = 1 THEN ((i - 16) \div 36) % 6
    ELSE IF axis = 2 THEN ((i - 16) \div 6) % 6
    ELSE (i - 16) % 6

Dist(a, b) == IF a < b THEN b - a ELSE a - b

\* j is i or adjacent to it: one ramp step for a ramp index, one level on
\* each axis for a cube index.
Adjacent(i, j) ==
    IF i >= 232 THEN j \in 232..255 /\ Dist(i, j) <= 1
    ELSE /\ j \in 16..231
         /\ \A axis \in 1..3 : Dist(CubeLevel(i, axis), CubeLevel(j, axis)) <= 1

\* The cube indices of the grays R=G=B at the levels 1..5.
CubeGrays == {59, 102, 145, 188, 231}

\* C14 as stated: for every palette index i in 16..255, quantizing the
\* reconstructed colour ansiToRGB(i) returns i or an adjacent index (one ramp
\* step away for ramp indices, one level away on each cube axis for cube
\* indices).
C14_RoundTripAdjacent ==
    pc = "quantized"
        => \A i \in 16..255 : col = ansiToRGB(i) => Adjacent(i, ansi)

\* C14 as amended: for every palette index i in 16..255, quantizing
\* ansiToRGB(i) returns i or an adjacent index, except that the five gray
\* cube indices 59, 102, 145, 188, 231 return a ramp index whose
\* reconstructed gray level is at most 10 below the gray value.
C14_RoundTripAdjacentOrRamp ==
    pc = "quantized"
        => \A i \in 16..255 :
              col = ansiToRGB(i)
                  => \/ i \notin CubeGrays /\ Adjacent(i, ansi)
                     \/ /\ i \in CubeGrays
                        /\ ansi \in 232..255
                        /\ col[1] - ansiToRGB(ansi)[1] \in 0..10

C14_Witness ==
    /\ pc = "quantized"
    /\ col = ansiToRGB(59)
    /\ col = <<47, 47, 47>>
    /\ ansi = 235

(***************************************************************************)
(* Claims about the show command (checked under SpecShow).                 *)
(***************************************************************************)
\* The renderer has been configured.
Configured == pc \in {"RenderImage", "render", "done", "printed"}

\* C15: width and height overrides come together or not at all: for every
\* pair of flag values, once the command is past its dimension check and has
\* configured the renderer, both MaxWidth and MaxHeight are overridden or
\* neither is; when only one flag is usable (> 0) the command prints the
\* error and returns without loading or rendering.
C15_OverridesTogether ==
    /\ Configured => overridden \in {{}, {"MaxWidth", "MaxHeight"}}
    /\ (pc # "show" /\ (renderWidth > 0) # (renderHeight > 0))
          => pc = "returned" /\ stdout = <<"DimensionError">>

\* The message that starts the loading, and the error of each failure.
FirstMessage == IF isURL THEN "Downloading" ELSE "Loading"

ErrorOf(fail) ==
    IF fail = "http" THEN "DownloadError"
    ELSE IF fail = "status" THEN "StatusError"
    ELSE IF fail = "open" THEN "OpenError"
    ELSE "DecodeError"

\* C16: the renderer is invoked only after the image was obtained and
\* decoded: on a file-open error, an HTTP transport error, a status other
\* than 200 or a decode error, the error message is printed, RenderImage is
\* never called and no rendered output is printed; on success the order is
\* load, decode, the "Image loaded" message, render, print.
C16_RenderAfterLoad ==
    /\ failure # "none"
          => /\ pc \in {"show", "open", "decode", "returned"}
             /\ output = <<>>
             /\ \A i \in DOMAIN stdout : stdout[i] # "Output"
             /\ (pc = "returned" /\ stdout # <<"DimensionError">>)
                   => stdout = <<FirstMessage, ErrorOf(failure)>>
    /\ pc \in {"configure", "RenderImage", "render"}
          => /\ stdout = <<FirstMessage, "Loaded">>
             /\ img = decoded
             /\ output = <<>>
    /\ pc = "done" => stdout = <<FirstMessage, "Loaded">> /\ output # <<>>
    /\ pc = "printed"
          => stdout = <<FirstMessage, "Loaded", "Output">> /\ output # <<>>

C16_Witness ==
    /\ pc = "printed"
    /\ isURL
    /\ failure = "none"
    /\ stdout = <<"Downloading", "Loaded", "Output">>
    /\ output # <<>>

\* C17: the mode is Block if --full is set (also with --braille), otherwise
\* Braille if --braille is set, otherwise HalfBlock; dithering is on exactly
\* when --no-dither is not set.
C17_ModeFromFlags ==
    Configured
        => /\ (useFullBlocks /\ useBraille) => Mode = BlockMode
           /\ (useFullBlocks /\ ~useBraille) => Mode = BlockMode
           /\ (~useFullBlocks /\ useBraille) => Mode = BrailleMode
           /\ (~useFullBlocks /\ ~useBraille) => Mode = HalfBlockMode
           /\ UseDither = ~noColor

C17_Witness ==
    /\ pc = "printed"
    /\ useFullBlocks /\ useBraille /\ noColor
    /\ Mode = BlockMode
    /\ ~UseDither

(***************************************************************************)
(* Claims about the branches of the quantizer (checked under               *)
(* SpecQuantizer).                                                         *)
(***************************************************************************)
\* The input colour after the dark boost, and floor(0.299R + 0.587G + 0.114B)
\* of it, computed in integers.
Boosted == boost(col[1], col[2], col[3])

Luma == (299 * Boosted[1] + 587 * Boosted[2] + 114 * Boosted[3]) \div 1000

\* The gray level of a ramp index, as ansiToRGB reconstructs it.
RampGray(i) == ansiToRGB(i)[1]

\* C18: for every colour (other than black) whose channel spread after the
\* dark boost is at most 10, the returned index is the nearest index of the
\* ramp: among all i in 232..255 it minimises |luma - gray(i)|; luma < 10
\* gives 232 and luma > 245 gives 255.
C18_NearestOnRamp ==
    (pc = "quantized" /\ col # <<0, 0, 0>> /\ Spread(Boosted) <= 10)
        => /\ ansi \in 232..255
           /\ \A i \in 232..255 :
                 Dist(Luma, RampGray(ansi)) <= Dist(Luma, RampGray(i))
           /\ Luma < 10 => ansi = 232
           /\ Luma > 245 => ansi = 255

\* The two candidates of the near-gray branch.
CubeCandidate == cubeIndex(Boosted[1], Boosted[2], Boosted[3])

RampCandidate == mapToGrayscale(Boosted[1], Boosted[2], Boosted[3])

\* 2*dR^2 + 4*dG^2 + 3*dB^2 between a colour and ansiToRGB of an index.
WeightedDistance(c, i) ==
    2 * (c[1] - ansiToRGB(i)[1]) * (c[1] - ansiToRGB(i)[1])
        + 4 * (c[2] - ansiToRGB(i)[2]) * (c[2] - ansiToRGB(i)[2])
        + 3 * (c[3] - ansiToRGB(i)[3]) * (c[3] - ansiToRGB(i)[3])

\* C19 as stated: for every colour with channel spread in 11..30, RGBToANSI256 returns
\* whichever of the cube index and the ramp index of mapToGrayscale has the
\* smaller weighted squared distance to the input, and the cube index when
\* the two distances are equal.
C19_NearGrayCloser ==
    (pc = "quantized" /\ Spread(col) \in 11..30)
        => ansi = IF WeightedDistance(col, RampCandidate)
                       < WeightedDistance(col, CubeCandidate)
                  THEN RampCandidate
                  ELSE CubeCandidate

\* C19 as amended: for every colour with channel spread in 11..30,
\* RGBToANSI256 returns whichever of the cube index and the ramp index has
\* the smaller weighted squared distance to the colour after the dark boost
\* (the input itself unless all its channels are below 15), and the cube
\* index when the two distances are equal.
C19_NearGrayCloserToBoosted ==
    (pc = "quantized" /\ Spread(col) \in 11..30)
        => ansi = IF WeightedDistance(Boosted, RampCandidate)
                       < WeightedDistance(Boosted, CubeCandidate)
                  THEN RampCandidate
                  ELSE CubeCandidate

C19_Witness ==
    /\ pc = "quantized"
    /\ col = <<18, 0, 0>>
    /\ WeightedDistance(Boosted, RampCandidate) = WeightedDistance(Boosted, CubeCandidate)
    /\ RampCandidate = 232
    /\ ansi = 16

\* C20: very dark colours do not become black: for every colour other than
\* (0,0,0) whose three channels are all below 15, each channel is boosted by
\* 10 before quantization and RGBToANSI256 returns the ramp index 232 or 233,
\* never 16.
C20_DarkNotBlack ==
    (pc = "quantized" /\ col # <<0, 0, 0>>
        /\ col[1] < 15 /\ col[2] < 15 /\ col[3] < 15)
        => /\ Boosted = <<col[1] + 10, col[2] + 10, col[3] + 10>>
           /\ ansi \in {232, 233}
           /\ ansi = quantizeBoosted(col[1] + 10, col[2] + 10, col[3] + 10)

C20_Witness ==
    /\ pc = "quantized"
    /\ col = <<14, 0, 0>>
    /\ ansi = 232

(***************************************************************************)
(* Claims about the cells of the renderers (checked under Spec).           *)
(***************************************************************************)
\* The pixel of the image that the output position (x, y) shows.
PixelAt(x, y) ==
    patternAt(img, <<img.minX + ((x * img.w) \div outputWidth),
                     img.minY + ((y * img.h) \div outputHeight)>>)

\* The palette index of a pixel with the offset d added to its channels.
IndexOf(p, d) ==
    RGBToANSI256(ClampByte(p[1] + d) * 256, ClampByte(p[2] + d) * 256,
                 ClampByte(p[3] + d) * 256)

\* The index of the sample at (x, y), dithered with (x, y) when dithering
\* is on.
DitheredIndex(x, y) ==
    IndexOf(PixelAt(x, y), IF UseDither THEN DitherOffset(x, y) ELSE 0)

HalfBlockRule(top, bottom) ==
    IF top = bottom
    THEN <<SetBg(top), Glyph(Space), Reset>>
    ELSE <<SetFg(top), SetBg(bottom), Glyph(UpperHalfBlock), Reset>>

\* C21: in HalfBlock mode, for every output row pair (y, y+1) and column x,
\* the top sample is dithered with (x, y) and the bottom with (x, y+1) when
\* dithering is on, both are quantized, and the cell is a single space with
\* that background when the two indices are equal, otherwise the glyph
\* U+2580 with foreground = top index and background = bottom index: the
\* foreground always comes from the upper image row.
C21_HalfBlockCellRule ==
    (pc = "done" /\ Mode = HalfBlockMode)
        => \A i \in DOMAIN output :
              output[i] # <<Newline>>
                  => output[i]
                       = HalfBlockRule(
                           DitheredIndex((i - 1) % (outputWidth + 1),
                                         2 * ((i - 1) \div (outputWidth + 1))),
                           DitheredIndex((i - 1) % (outputWidth + 1),
                                         2 * ((i - 1) \div (outputWidth + 1)) + 1))

C21_Witness ==
    /\ pc = "done"
    /\ Mode = HalfBlockMode
    /\ UseDither
    /\ img.pat = <<White, Dark>> /\ img.w = 1 /\ img.h = 2
    /\ outputWidth = 1 /\ outputHeight = 2
    /\ output = << <<SetFg(255), SetBg(232), Glyph(UpperHalfBlock), Reset>>,
                   <<Newline>> >>

(***************************************************************************)
(* Claims about the Braille renderer (checked under SpecBraille).          *)
(***************************************************************************)
\* The cell written as chunk i of a Braille text: its column and its row.
CellX(i) == (i - 1) % (GridCells + 1)

CellY(i) == (i - 1) \div (GridCells + 1)

\* 1000 times the luma 0.299 R + 0.587 G + 0.114 B, an integer.
Luma1000(p) == 299 * p[1] + 587 * p[2] + 114 * p[3]

\* Left column, top to bottom: 0x01, 0x02, 0x04, 0x40; right column: 0x08,
\* 0x10, 0x20, 0x80.
DotBit(px, py) ==
    IF px = 0 THEN <<1, 2, 4, 64>>[py + 1] ELSE <<8, 16, 32, 128>>[py + 1]

\* The bit of the sub-position (x, y) of the output grid, 0 when it is off.
DotOf(x, y, bit) ==
    IF x < outputWidth /\ y < outputHeight /\ Luma1000(PixelAt(x, y)) > 128000
    THEN bit ELSE 0

CellPattern(bx, by) ==
    DotOf(2 * bx, 4 * by, DotBit(0, 0)) + DotOf(2 * bx, 4 * by + 1, DotBit(0, 1))
        + DotOf(2 * bx, 4 * by + 2, DotBit(0, 2))
        + DotOf(2 * bx, 4 * by + 3, DotBit(0, 3))
        + DotOf(2 * bx + 1, 4 * by, DotBit(1, 0))
        + DotOf(2 * bx + 1, 4 * by + 1, DotBit(1, 1))
        + DotOf(2 * bx + 1, 4 * by + 2, DotBit(1, 2))
        + DotOf(2 * bx + 1, 4 * by + 3, DotBit(1, 3))

\* C22: in Braille mode, for every cell, the bit of sub-position (px, py),
\* px in 0..1 and py in 0..3, is set if and only if (2*bx+px, 4*by+py) lies
\* inside the output grid and the luma of its sample is strictly greater
\* than 128; the eight sub-positions map to eight distinct bits (left column
\* top to bottom 0x01, 0x02, 0x04, 0x40; right column 0x08, 0x10, 0x20,
\* 0x80), and the code point is 0x2800 + pattern, always in U+2800..U+28FF.
C22_BraillePacking ==
    (pc = "done" /\ Mode = BrailleMode)
        => /\ \A i \in DOMAIN output :
                output[i] # <<Newline>>
                    => /\ output[i][2]
                            = Glyph(BrailleBase + CellPattern(CellX(i), CellY(i)))
                       /\ output[i][2].n \in 10240..10495
           /\ \A d \in (0..1) \X (0..3) :
                /\ brailleDotMask(d[1], d[2]) = DotBit(d[1], d[2])
                /\ \A e \in (0..1) \X (0..3) :
                      brailleDotMask(d[1], d[2]) = brailleDotMask(e[1], e[2])
                          => d = e

\* Tie pixels (luma 128, off) alternate with pixels of luma 129 (on).
C22_Witness ==
    /\ pc = "done"
    /\ Mode = BrailleMode
    /\ img.pat = <<Tie, Gray129>> /\ img.w = 4 /\ img.h = 2
    /\ outputWidth = 4 /\ outputHeight = 4
    /\ output = << <<SetFg(71), Glyph(BrailleBase + 92), Reset>>,
                   <<SetFg(71), Glyph(BrailleBase + 92), Reset>>,
                   <<Newline>> >>

\* The sub-positions of cell (bx, by) that lie inside the output grid.
InGridDots(bx, by) ==
    {d \in (0..1) \X (0..3) :
        2 * bx + d[1] < outputWidth /\ 4 * by + d[2] < outputHeight}

\* Channel k of the sample of sub-position d of cell (bx, by).
SampleChannel(bx, by, d, k) == PixelAt(2 * bx + d[1], 4 * by + d[2])[k]

ChannelOf(bx, by, d, k) ==
    IF d \in InGridDots(bx, by) THEN SampleChannel(bx, by, d, k) ELSE 0

CellSum(bx, by, k) ==
    ChannelOf(bx, by, <<0, 0>>, k) + ChannelOf(bx, by, <<0, 1>>, k)
        + ChannelOf(bx, by, <<0, 2>>, k) + ChannelOf(bx, by, <<0, 3>>, k)
        + ChannelOf(bx, by, <<1, 0>>, k) + ChannelOf(bx, by, <<1, 1>>, k)
        + ChannelOf(bx, by, <<1, 2>>, k) + ChannelOf(bx, by, <<1, 3>>, k)

\* floor(sum / count) lies between the least and the greatest sample.
AverageBetween(bx, by, k, avg) ==
    /\ \E d \in InGridDots(bx, by) : SampleChannel(bx, by, d, k) <= avg
    /\ \E d \in InGridDots(bx, by) : SampleChannel(bx, by, d, k) >= avg
    /\ avg \in 0..255

\* The cell (bx, by) whose in-grid sub-positions are count in number.
AveragedCell(cell, bx, by, count) ==
    /\ count \in 1..8
    /\ Cardinality(DOMAIN dotColors(img, bx, by, outputWidth, outputHeight)) = count
    /\ \A k \in 1..3 : AverageBetween(bx, by, k, CellSum(bx, by, k) \div count)
    /\ cell[1] = SetFg(IndexOf(<<CellSum(bx, by, 1) \div count,
                                  CellSum(bx, by, 2) \div count,
                                  CellSum(bx, by, 3) \div count>>, 0))

\* C23: Braille averaging never divides by zero: for every output size
\* width, height >= 1 and every cell of the ceil(width/2) x ceil(height/4)
\* cell grid, the number of in-bounds sub-positions counted is between 1
\* and 8, so the count-is-zero guard is never the taken path, and each
\* averaged channel is floor(sum/count), lying between the minimum and the
\* maximum of the sampled channel values (hence in 0..255).
C23_BrailleAverage ==
    (pc = "done" /\ Mode = BrailleMode)
        => /\ outputWidth >= 1 /\ outputHeight >= 1
           /\ \A i \in DOMAIN output :
                output[i] # <<Newline>>
                    => AveragedCell(output[i], CellX(i), CellY(i),
                                    Cardinality(InGridDots(CellX(i), CellY(i))))

\* The right cell of a 3 x 3 grid has 3 sub-positions in the grid: two of
\* gray 128 and a white one, 511 in sum, 170 on average.
C23_Witness ==
    /\ pc = "done"
    /\ Mode = BrailleMode
    /\ img.pat = <<Gray128, White>> /\ img.w = 4 /\ img.h = 2
    /\ outputWidth = 3 /\ outputHeight = 3
    /\ Cardinality(DOMAIN dotColors(img, 1, 0, outputWidth, outputHeight)) = 3
    /\ CellSum(1, 0, 1) = 511
    /\ output[2] = <<SetFg(IndexOf(<<170, 170, 170>>, 0)), Glyph(BrailleBase + 4), Reset>>
    /\ output[2][1] = SetFg(247)

\* C24: Braille output does not depend on the dither setting: for every
\* image and every MaxWidth, MaxHeight, rendering in Braille mode with
\* UseDither = true and with UseDither = false produces identical text.
\* previous is the text of the call with the other setting.
C24_BrailleIgnoresDither ==
    (pc = "done" /\ Mode = BrailleMode /\ previous # <<>>)
        => output = previous

\* Rendered without dither, then with it: a dither offset of -4 on gray 129
\* would have switched its dots off.
C24_Witness ==
    /\ pc = "done"
    /\ Mode = BrailleMode
    /\ UseDither
    /\ img.pat = <<Tie, Gray129>> /\ img.w = 4 /\ img.h = 2
    /\ MaxWidth = 4 /\ MaxHeight = 4
    /\ previous = << <<SetFg(71), Glyph(BrailleBase + 92), Reset>>,
                     <<SetFg(71), Glyph(BrailleBase + 92), Reset>>,
                     <<Newline>> >>
    /\ output = previous

====
